---- MODULE Spec2Model ----
(***************************************************************************)
(* Customer Segmentation Dashboard (src/app.py): a Streamlit script that   *)
(* is re-executed from top to bottom on every user interaction.  A state   *)
(* of the model is the state left behind by one execution of the script:   *)
(* the session's widget values, the script's variables and what the        *)
(* execution put on the page.  Every action is one interaction followed by *)
(* the complete script execution it triggers.                              *)
(*                                                                         *)
(* Arithmetic is exact.  A mean is kept as a fraction [n, d] (d > 0), a    *)
(* standardized value as an integer numerator over the column's common     *)
(* denominator n_samples * scale_, so that distances in standardized space *)
(* are compared without rounding.                                          *)
(***************************************************************************)
EXTENDS Integers, Sequences, FiniteSets, TLC

VARIABLES
    uploaded_file,      \* <<>> (None) or <<file>>: the file held by st.file_uploader
    df,                 \* <<>> or <<dataframe>>: the script's variable df
    numeric_features,   \* the script's variable numeric_features (a sequence of names)
    feature_1,          \* value of selectbox "Select Feature 1" ("None" when it has no options)
    feature_2,          \* value of selectbox "Select Feature 2"
    k,                  \* value of the slider "Number of Clusters (K)"
    random_state,       \* value of the number input "Random State (Optional)"
    outcome,            \* how the last script execution ended
    scatter,            \* <<>> or <<what the two ax.scatter calls drew>>
    summary,            \* rows of the summary table shown by st.dataframe
    messages,           \* the interpretation lines written by st.write
    memo                \* <<>> or <<one earlier run of the current upload>> (history)

vars == <<uploaded_file, df, numeric_features, feature_1, feature_2, k,
          random_state, outcome, scatter, summary, messages, memo>>

-----------------------------------------------------------------------------
(* Bounds of the model and constants of the program *)

MaxRows == 3            \* a file has 1..MaxRows data rows
MaxVal == 1             \* a numeric cell is in 0..MaxVal
MaxSeedOffset == 1      \* the seed is in DefaultSeed..DefaultSeed+MaxSeedOffset

MinK == 2
MaxK == 10
DefaultK == 3
DefaultSeed == 42
max_iter == 300

None == "None"

Seeds == DefaultSeed..(DefaultSeed + MaxSeedOffset)

-----------------------------------------------------------------------------
(* Sequences and fractions *)

Range(s) == {s[i] : i \in DOMAIN s}

RECURSIVE SumSeq(_)
SumSeq(s) == IF s = <<>> THEN 0 ELSE Head(s) + SumSeq(Tail(s))

RECURSIVE SelectIdx(_, _)
\* the indices of s, ascending, as a sequence, restricted to the set keep
SelectIdx(n, keep) ==
    IF n = 0 THEN <<>>
    ELSE IF n \in keep THEN Append(SelectIdx(n - 1, keep), n)
         ELSE SelectIdx(n - 1, keep)

Frac(a, b) == [n |-> a, d |-> b]
FracLess(x, y) == x.n * y.d < y.n * x.d
FracEq(x, y) == x.n * y.d = y.n * x.d
FracAdd(x, y) == Frac(x.n * y.d + y.n * x.d, x.d * y.d)

RECURSIVE FracSum(_)
FracSum(s) == IF s = <<>> THEN Frac(0, 1) ELSE FracAdd(Head(s), FracSum(Tail(s)))

\* pandas Series.mean() of a non-empty series of fractions
FracMean(s) == LET t == FracSum(s) IN Frac(t.n, t.d * Len(s))

-----------------------------------------------------------------------------
(* Files that can be uploaded.  A dataframe is [columns, dtype, data]:     *)
(* the column names in file order, each column's dtype, each column's      *)
(* values.  Cells of an object column are the string "s".                  *)

Col(name, dtype, cells) == [name |-> name, dtype |-> dtype, cells |-> cells]

\* "free": every cell ranges over 0..MaxVal; "rowid": the cell of row r is r
\* (a customer number); "rank": the cell of row r is n - r; "text": every
\* cell is the string "s".
Schemas ==
    { << Col("Name", "object", "text") >>,
      << Col("Name", "object", "text"), Col("Age", "int64", "free") >>,
      << Col("Cluster", "int64", "free"), Col("Name", "object", "text"),
         Col("Spend", "int64", "free") >>,
      << Col("CustomerID", "int64", "rowid"), Col("Income", "int64", "free"),
         Col("Name", "object", "text"), Col("Rank", "int64", "rank") >> }

Names(schema) == {schema[i].name : i \in DOMAIN schema}
FreeNames(schema) ==
    {schema[i].name : i \in {j \in DOMAIN schema : schema[j].cells = "free"}}
ColOf(schema, c) == schema[CHOOSE i \in DOMAIN schema : schema[i].name = c]

Frame(schema, n, cells) ==
    [ columns |-> [i \in DOMAIN schema |-> schema[i].name],
      dtype   |-> [c \in Names(schema) |-> ColOf(schema, c).dtype],
      data    |-> [c \in Names(schema) |->
                      CASE ColOf(schema, c).cells = "free"  -> cells[c]
                        [] ColOf(schema, c).cells = "rowid" -> [r \in 1..n |-> r]
                        [] ColOf(schema, c).cells = "rank"  -> [r \in 1..n |-> n - r]
                        [] OTHER                            -> [r \in 1..n |-> "s"]] ]

Files ==
    UNION { UNION { { Frame(schema, n, cells) :
                        cells \in [FreeNames(schema) -> [1..n -> 0..MaxVal]] } :
                    n \in 1..MaxRows } :
            schema \in Schemas }

NRows(frame) == Len(frame.data[frame.columns[1]])

-----------------------------------------------------------------------------
(* pandas: the dataframe operations the script uses *)

\* read_csv behind a cache that hands back the dataframe object of the
\* previous execution
read_csv_cached(file) == IF df # <<>> THEN df[1] ELSE file

\* pd.read_csv(uploaded_file): a fresh dataframe with the file's content
read_csv(file) == file

\* df.select_dtypes(include=["int64", "float64"]).columns.tolist()
select_dtypes(frame) ==
    [i \in 1..Len(SelectIdx(Len(frame.columns),
                  {j \in DOMAIN frame.columns :
                      frame.dtype[frame.columns[j]] \in {"int64", "float64"}}))
       |-> frame.columns[SelectIdx(Len(frame.columns),
                  {j \in DOMAIN frame.columns :
                      frame.dtype[frame.columns[j]] \in {"int64", "float64"}})[i]]]

\* df[[a, b]] raises KeyError unless both names are columns
HasColumns(frame, a, b) == {a, b} \subseteq Range(frame.columns)

\* df[[a, b]]: the N x 2 matrix of the two columns, one pair per row
GetColumns(frame, a, b) ==
    [r \in 1..NRows(frame) |-> <<frame.data[a][r], frame.data[b][r]>>]

\* df[name] = values: replaces the column when it exists, appends it otherwise
SetColumn(frame, name, dtype, values) ==
    [ columns |-> IF name \in Range(frame.columns) THEN frame.columns
                  ELSE Append(frame.columns, name),
      dtype   |-> [c \in Range(frame.columns) \cup {name} |->
                      IF c = name THEN dtype ELSE frame.dtype[c]],
      data    |-> [c \in Range(frame.columns) \cup {name} |->
                      IF c = name THEN values ELSE frame.data[c]] ]

-----------------------------------------------------------------------------
(* sklearn.preprocessing.StandardScaler *)

\* fit: n_samples, the column sums (mean_ = sum / n_samples) and
\* n_samples^2 * var_ = n_samples * sum of squares - sum^2 (population variance)
ScalerFit(X) ==
    LET n == Len(X)
        s(j) == SumSeq([r \in 1..n |-> X[r][j]])
        q(j) == SumSeq([r \in 1..n |-> X[r][j] * X[r][j]])
    IN [ n_samples |-> n,
         sum       |-> <<s(1), s(2)>>,
         var_n2    |-> <<n * q(1) - s(1) * s(1), n * q(2) - s(2) * s(2)>> ]

\* (n_samples * scale_[j])^2, where scale_ = sqrt(var_) and a zero scale is
\* replaced by 1 (a constant column is only centred)
Scale2(scaler, j) ==
    IF scaler.var_n2[j] = 0 THEN scaler.n_samples * scaler.n_samples
    ELSE scaler.var_n2[j]

\* transform: (x - mean_) / scale_, kept as the numerator n_samples * x - sum
\* over the denominator n_samples * scale_[j]
ScalerTransformValue(scaler, j, x) == scaler.n_samples * x - scaler.sum[j]

ScalerTransform(scaler, X) ==
    [r \in 1..Len(X) |-> << ScalerTransformValue(scaler, 1, X[r][1]),
                            ScalerTransformValue(scaler, 2, X[r][2]) >>]

\* inverse_transform that scales back without adding mean_
InverseTransformNoMean(scaler, j, c) ==
    Frac(c.sum[j], c.cnt * scaler.n_samples)

\* inverse_transform of one coordinate of a centre: z * scale_ + mean_.
\* The centre is the mean of c.cnt standardized rows whose numerators sum to
\* c.sum, so z * scale_ = c.sum[j] / (c.cnt * n_samples).
InverseTransformValue(scaler, j, c) ==
    Frac(c.sum[j] + c.cnt * scaler.sum[j], c.cnt * scaler.n_samples)

inverse_transform(scaler, cluster_centers) ==
    [i \in DOMAIN cluster_centers |->
        << InverseTransformValue(scaler, 1, cluster_centers[i]),
           InverseTransformValue(scaler, 2, cluster_centers[i]) >>]

-----------------------------------------------------------------------------
(* sklearn.cluster.KMeans on the standardized matrix.  A centre is         *)
(* [sum, cnt]: the mean of cnt rows whose numerators sum to sum.  The      *)
(* library's generator is a function of random_state alone; Rand stands    *)
(* for it without reproducing its numbers.  Seeding follows k-means++ in   *)
(* drawing every centre among the rows and never drawing a row that        *)
(* coincides with a chosen centre while another row is left.               *)

PointCentre(p) == [sum |-> p, cnt |-> 1]

\* squared Euclidean distance in standardized space from row p to centre c,
\* times the constant Scale2(1) * Scale2(2) of the fitted scaler
SqDist(scaler, p, c) ==
    LET d1 == c.cnt * p[1] - c.sum[1]
        d2 == c.cnt * p[2] - c.sum[2]
    IN Frac(d1 * d1 * Scale2(scaler, 2) + d2 * d2 * Scale2(scaler, 1), c.cnt * c.cnt)

CentreEq(a, b) ==
    /\ a.sum[1] * b.cnt = b.sum[1] * a.cnt
    /\ a.sum[2] * b.cnt = b.sum[2] * a.cnt

\* the i-th number drawn from the generator seeded with random_state
Rand(seed, i) == seed + 3 * i

\* index (1-based) of the centre nearest to p, the lowest index on a tie
Nearest(scaler, p, centres) ==
    CHOOSE c \in DOMAIN centres :
        /\ \A o \in DOMAIN centres :
              ~FracLess(SqDist(scaler, p, centres[o]), SqDist(scaler, p, centres[c]))
        /\ \A o \in 1..(c - 1) :
              FracLess(SqDist(scaler, p, centres[c]), SqDist(scaler, p, centres[o]))

RECURSIVE Seeding(_, _, _, _, _)
\* initial centres: the first is a row drawn by the generator; each further
\* one is drawn among the rows at a positive distance from every centre
\* chosen so far (among all rows when there is none)
Seeding(scaler, P, centres, n_clusters, seed) ==
    IF Len(centres) = n_clusters THEN centres
    ELSE LET far == {r \in DOMAIN P :
                        \A c \in DOMAIN centres :
                            SqDist(scaler, P[r], centres[c]).n > 0}
             cand == IF far = {} THEN DOMAIN P ELSE far
             pick == SelectIdx(Len(P), cand)
                        [(Rand(seed, Len(centres)) % Cardinality(cand)) + 1]
         IN Seeding(scaler, P, Append(centres, PointCentre(P[pick])), n_clusters, seed)

\* AssignLabels numbering the centres from 1
AssignLabelsOneBased(scaler, P, centres) ==
    [r \in DOMAIN P |-> Nearest(scaler, P[r], centres)]

\* assignment step: the 0-based id of the nearest centre of every row
AssignLabels(scaler, P, centres) ==
    [r \in DOMAIN P |-> Nearest(scaler, P[r], centres) - 1]

\* update step: every centre becomes the mean of the rows assigned to it; a
\* centre with no row keeps its position
UpdateCentres(P, labels, centres) ==
    [c \in DOMAIN centres |->
        LET members == {r \in DOMAIN P : labels[r] = c - 1}
            rows == SelectIdx(Len(P), members)
        IN IF members = {} THEN centres[c]
           ELSE [ sum |-> << SumSeq([i \in DOMAIN rows |-> P[rows[i]][1]]),
                             SumSeq([i \in DOMAIN rows |-> P[rows[i]][2]]) >>,
                  cnt |-> Cardinality(members) ]]

RECURSIVE Lloyd(_, _, _, _, _)
\* iterate until the labels repeat, the centres stop moving or max_iter
Lloyd(scaler, P, centres, labels_old, iter) ==
    LET labels == AssignLabels(scaler, P, centres)
        centres_new == UpdateCentres(P, labels, centres)
    IN IF labels = labels_old
       THEN [labels_ |-> labels, cluster_centers_ |-> centres_new]
       ELSE IF \/ iter + 1 >= max_iter
               \/ \A c \in DOMAIN centres : CentreEq(centres[c], centres_new[c])
            THEN [ labels_ |-> AssignLabels(scaler, P, centres_new),
                   cluster_centers_ |-> centres_new ]
            ELSE Lloyd(scaler, P, centres_new, labels, iter + 1)

\* a fit that accepts any number of clusters
FitNeverRaises(P, n_clusters) == FALSE

\* KMeans.fit raises ValueError when n_samples < n_clusters
FitRaises(P, n_clusters) == Len(P) < n_clusters

\* KMeans(n_clusters, random_state).fit(X_scaled)
KMeansFit(scaler, P, n_clusters, seed) ==
    Lloyd(scaler, P, Seeding(scaler, P, <<>>, n_clusters, seed), <<>>, 0)

-----------------------------------------------------------------------------
(* The script, lines 132-263 *)

\* the second selectbox offered every numeric column
Feature2OptionsAll(features, f1) == features

\* [f for f in numeric_features if f != feature_1]
Feature2Options(features, f1) == SelectSeq(features, LAMBDA f : f # f1)

\* st.selectbox: None without options; the value chosen earlier while the
\* widget is unchanged (same options); the first option for a new widget
Selectbox(options, old_options, old_value) ==
    IF options = <<>> THEN None
    ELSE IF options = old_options /\ old_value # None THEN old_value
    ELSE options[1]

\* GroupSummary with Count aggregated by "sum" instead of "count"
GroupSummaryCountSum(frame, f1, f2) ==
    LET ids == SelectIdx(MaxK, {id + 1 : id \in Range(frame.data["Cluster"])})
        members(id) == SelectIdx(NRows(frame),
                          {r \in 1..NRows(frame) : frame.data["Cluster"][r] = id})
        total(f, id) == SumSeq([i \in DOMAIN members(id) |-> frame.data[f][members(id)[i]]])
    IN [i \in DOMAIN ids |->
          [ Cluster       |-> ids[i] - 1,
            Count         |-> total("Cluster", ids[i] - 1),
            Avg_Feature_1 |-> Frac(total(f1, ids[i] - 1), Len(members(ids[i] - 1))),
            Avg_Feature_2 |-> Frac(total(f2, ids[i] - 1), Len(members(ids[i] - 1))) ]]

\* df.groupby("Cluster").agg(Count, Avg_Feature_1, Avg_Feature_2).reset_index():
\* one row per value of the column Cluster, ascending, read from frame as it
\* is when the summary is computed
GroupSummary(frame, f1, f2) ==
    LET ids == SelectIdx(MaxK, {id + 1 : id \in Range(frame.data["Cluster"])})
        members(id) == SelectIdx(NRows(frame),
                          {r \in 1..NRows(frame) : frame.data["Cluster"][r] = id})
        total(f, id) == SumSeq([i \in DOMAIN members(id) |-> frame.data[f][members(id)[i]]])
    IN [i \in DOMAIN ids |->
          [ Cluster       |-> ids[i] - 1,
            Count         |-> Len(members(ids[i] - 1)),
            Avg_Feature_1 |-> Frac(total(f1, ids[i] - 1), Len(members(ids[i] - 1))),
            Avg_Feature_2 |-> Frac(total(f2, ids[i] - 1), Len(members(ids[i] - 1))) ]]

High == "High-spending customers across multiple categories"
Budget == "Budget-conscious customers with low annual spend"
Moderate == "Moderate spenders with selective purchasing behavior"

\* the mean of feature_1 over all dataset rows, each group weighted by its Count
GrandMean1Weighted(table) ==
    LET t == FracSum([i \in DOMAIN table |->
                 Frac(table[i].Avg_Feature_1.n * table[i].Count, table[i].Avg_Feature_1.d)])
    IN Frac(t.n, t.d * SumSeq([i \in DOMAIN table |-> table[i].Count]))

\* summary["Avg_Feature_1"].mean(), summary["Avg_Feature_2"].mean()
GrandMean1(table) == FracMean([i \in DOMAIN table |-> table[i].Avg_Feature_1])

GrandMean2(table) == FracMean([i \in DOMAIN table |-> table[i].Avg_Feature_2])

\* the if / elif / else of lines 239-250 for one row of the summary
Interpret(row, table) ==
    IF /\ FracLess(GrandMean1(table), row.Avg_Feature_1)
       /\ FracLess(GrandMean2(table), row.Avg_Feature_2)
    THEN High
    ELSE IF /\ FracLess(row.Avg_Feature_1, GrandMean1(table))
            /\ FracLess(row.Avg_Feature_2, GrandMean2(table))
         THEN Budget
         ELSE Moderate

\* for _, row in summary.iterrows(): st.write(f"Cluster {cid}: {msg}")
Interpretation(table) ==
    [i \in DOMAIN table |-> [cid |-> table[i].Cluster, msg |-> Interpret(table[i], table)]]

\* lines 172-181: X, scaler, X_scaled and the fitted kmeans
Clustering(frame, f1, f2, n_clusters, seed) ==
    LET X == GetColumns(frame, f1, f2)
        scaler == ScalerFit(X)
        X_scaled == ScalerTransform(scaler, X)
        kmeans == KMeansFit(scaler, X_scaled, n_clusters, seed)
    IN [ scaler |-> scaler,
         labels_ |-> kmeans.labels_,
         cluster_centers_ |-> kmeans.cluster_centers_ ]

\* lines 189-205: the points, their colours and the centres, read from the
\* dataframe as it is when the figure is drawn
Scatter(frame, f1, f2, centers) ==
    [ x |-> frame.data[f1], y |-> frame.data[f2], c |-> frame.data["Cluster"],
      centers |-> centers ]

NoOutput == scatter' = <<>> /\ summary' = <<>> /\ messages' = <<>>

\* lines 134-141 with the session's (primed) uploaded file: the dataframe is
\* read again on every execution of the script
Load ==
    /\ UNCHANGED uploaded_file
    /\ numeric_features' = select_dtypes(read_csv(uploaded_file[1]))

\* a script execution in which the button is not pressed: lines 170-260 are
\* skipped, df is the dataframe just read
Rerun ==
    /\ df' = << read_csv(uploaded_file'[1]) >>
    /\ outcome' = "idle"
    /\ NoOutput

Init ==
    /\ uploaded_file = <<>>
    /\ df = <<>>
    /\ numeric_features = <<>>
    /\ feature_1 = None
    /\ feature_2 = None
    /\ k = DefaultK
    /\ random_state = DefaultSeed
    /\ outcome = "warning"
    /\ scatter = <<>>
    /\ summary = <<>>
    /\ messages = <<>>
    /\ memo = <<>>

\* the user uploads a file into the empty uploader (replacing a file is
\* ClearFile followed by Upload)
Upload ==
    \E file \in Files :
        /\ uploaded_file = <<>>
        /\ uploaded_file' = << file >>
        /\ numeric_features' = select_dtypes(read_csv(file))
        /\ feature_1' = Selectbox(numeric_features', numeric_features, feature_1)
        /\ feature_2' = Selectbox(Feature2Options(numeric_features', feature_1'),
                                  Feature2Options(numeric_features, feature_1), feature_2)
        /\ Rerun
        /\ memo' = <<>>
        /\ UNCHANGED <<k, random_state>>

\* the user removes the file: the else branch of line 262, the sidebar
\* widgets are not created and lose their values
ClearFile ==
    /\ uploaded_file # <<>>
    /\ uploaded_file' = <<>>
    /\ df' = <<>>
    /\ numeric_features' = <<>>
    /\ feature_1' = None
    /\ feature_2' = None
    /\ k' = DefaultK
    /\ random_state' = DefaultSeed
    /\ outcome' = "warning"
    /\ NoOutput
    /\ memo' = <<>>

SelectFeature1 ==
    \E f \in Range(numeric_features) :
        /\ uploaded_file # <<>>
        /\ f # feature_1
        /\ Load
        /\ feature_1' = f
        /\ feature_2' = Selectbox(Feature2Options(numeric_features', f),
                                  Feature2Options(numeric_features, feature_1), feature_2)
        /\ Rerun
        /\ UNCHANGED <<k, random_state, memo>>

SelectFeature2 ==
    \E f \in Range(Feature2Options(numeric_features, feature_1)) :
        /\ uploaded_file # <<>>
        /\ f # feature_2
        /\ Load
        /\ feature_2' = f
        /\ Rerun
        /\ UNCHANGED <<feature_1, k, random_state, memo>>

SetK ==
    \E v \in MinK..MaxK :
        /\ uploaded_file # <<>>
        /\ v # k
        /\ Load
        /\ k' = v
        /\ Rerun
        /\ UNCHANGED <<feature_1, feature_2, random_state, memo>>

SetRandomState ==
    \E v \in Seeds :
        /\ uploaded_file # <<>>
        /\ v # random_state
        /\ Load
        /\ random_state' = v
        /\ Rerun
        /\ UNCHANGED <<feature_1, feature_2, k, memo>>

\* the button is pressed: the widgets keep their values, run_btn is True
Pressed ==
    /\ uploaded_file # <<>>
    /\ Load
    /\ UNCHANGED <<feature_1, feature_2, k, random_state>>

\* line 172 raises KeyError: a selectbox without options returned None
RunKeyError ==
    /\ Pressed
    /\ ~HasColumns(read_csv(uploaded_file[1]), feature_1, feature_2)
    /\ df' = << read_csv(uploaded_file[1]) >>
    /\ outcome' = "KeyError"
    /\ NoOutput
    /\ UNCHANGED memo

\* line 181 raises ValueError before df["Cluster"] is assigned
RunValueError ==
    /\ Pressed
    /\ HasColumns(read_csv(uploaded_file[1]), feature_1, feature_2)
    /\ FitRaises(GetColumns(read_csv(uploaded_file[1]), feature_1, feature_2), k)
    /\ df' = << read_csv(uploaded_file[1]) >>
    /\ outcome' = "ValueError"
    /\ NoOutput
    /\ UNCHANGED memo

\* lines 172-260 run to the end
RunBody ==
    /\ Pressed
    /\ HasColumns(read_csv(uploaded_file[1]), feature_1, feature_2)
    /\ ~FitRaises(GetColumns(read_csv(uploaded_file[1]), feature_1, feature_2), k)
    /\ LET fitted == Clustering(read_csv(uploaded_file[1]), feature_1, feature_2,
                                k, random_state)
       IN /\ df' = << SetColumn(read_csv(uploaded_file[1]), "Cluster", "int32",
                                fitted.labels_) >>
          /\ scatter' = << Scatter(df'[1], feature_1, feature_2,
                              inverse_transform(fitted.scaler, fitted.cluster_centers_)) >>
    /\ summary' = GroupSummary(df'[1], feature_1, feature_2)
    /\ messages' = Interpretation(summary')
    /\ outcome' = "ok"

RunClustering == RunBody /\ UNCHANGED memo

Next ==
    \/ Upload
    \/ ClearFile
    \/ SelectFeature1
    \/ SelectFeature2
    \/ SetK
    \/ SetRandomState
    \/ RunKeyError
    \/ RunValueError
    \/ RunClustering

Spec == Init /\ [][Next]_vars

-----------------------------------------------------------------------------
(* Runs compared with an earlier run.  memo is a history variable: a run   *)
(* may be remembered with its parameters; an upload forgets it, so memo is *)
(* always a run over the file now held by the uploader.                    *)

SameParameters(m) ==
    /\ m.feature_1 = feature_1
    /\ m.feature_2 = feature_2
    /\ m.k = k
    /\ m.random_state = random_state

Remembered ==
    [ feature_1 |-> feature_1, feature_2 |-> feature_2, k |-> k,
      random_state |-> random_state, Cluster |-> df'[1].data["Cluster"],
      other_runs |-> FALSE ]

\* a run that is remembered, or that is recorded as a run with other
\* parameters made since the remembered one
RunRemembering ==
    /\ RunBody
    /\ \/ memo' = << Remembered >>
       \/ memo = <<>> /\ memo' = memo
       \/ /\ memo # <<>>
          /\ memo' = << [memo[1] EXCEPT
                            !.other_runs = @ \/ ~SameParameters(memo[1])] >>

NextDet ==
    \/ Upload
    \/ ClearFile
    \/ SelectFeature1
    \/ SelectFeature2
    \/ SetK
    \/ SetRandomState
    \/ RunKeyError
    \/ RunValueError
    \/ RunRemembering

SpecDet == Init /\ [][NextDet]_vars

-----------------------------------------------------------------------------
(* The interpretation of lines 236-252 as a function of the summary table: *)
(* the table is drawn from the tables GroupSummary can return for at most  *)
(* MaxTableRows dataset rows with cells in 0..MaxVal.                      *)

MaxTableRows == 5

\* the rows a group of at most cmax dataset rows can give
SummaryRows(cmax) ==
    UNION { { [ Count |-> c, Avg_Feature_1 |-> Frac(t1, c), Avg_Feature_2 |-> Frac(t2, c) ] :
                t1 \in 0..(c * MaxVal), t2 \in 0..(c * MaxVal) } :
            c \in 1..cmax }

RECURSIVE Groupings(_)
\* the sequences of groups over at most budget dataset rows
Groupings(budget) ==
    {<<>>} \cup
    UNION { { <<row>> \o rest : rest \in Groupings(budget - row.Count) } :
            row \in SummaryRows(budget) }

\* the non-empty tables, ids 0..m-1, over at most budget dataset rows
Tables(budget) ==
    { [i \in DOMAIN t |-> [ Cluster       |-> i - 1,
                            Count         |-> t[i].Count,
                            Avg_Feature_1 |-> t[i].Avg_Feature_1,
                            Avg_Feature_2 |-> t[i].Avg_Feature_2 ]] :
        t \in Groupings(budget) \ {<<>>} }

InitInterp ==
    /\ uploaded_file = <<>>
    /\ df = <<>>
    /\ numeric_features = <<>>
    /\ feature_1 = None
    /\ feature_2 = None
    /\ k = DefaultK
    /\ random_state = DefaultSeed
    /\ outcome = "summary"
    /\ scatter = <<>>
    /\ summary \in Tables(MaxTableRows)
    /\ messages = <<>>
    /\ memo = <<>>

\* the loop of lines 236-252 over the table
InterpretSummary ==
    /\ outcome = "summary"
    /\ messages' = Interpretation(summary)
    /\ outcome' = "interpreted"
    /\ UNCHANGED <<uploaded_file, df, numeric_features, feature_1, feature_2, k,
                   random_state, scatter, summary, memo>>

NextInterp == InterpretSummary

SpecInterp == InitInterp /\ [][NextInterp]_vars

-----------------------------------------------------------------------------
(* Properties *)

Uploaded == uploaded_file[1]
Ids == df[1].data["Cluster"]
RowsOf(id) == {r \in DOMAIN Ids : Ids[r] = id}

\* the button was pressed in the last execution of the script
Ran == outcome \in {"ok", "KeyError", "ValueError"}

\* N rows, two distinct numeric feature columns, 2 <= K <= 10, K <= N
ValidInput ==
    /\ uploaded_file # <<>>
    /\ {feature_1, feature_2} \subseteq Range(numeric_features)
    /\ feature_1 # feature_2
    /\ k \in MinK..MaxK
    /\ k <= NRows(Uploaded)

MeanOfMeans1 ==
    LET t == FracSum([i \in DOMAIN summary |-> summary[i].Avg_Feature_1])
    IN Frac(t.n, t.d * Len(summary))
MeanOfMeans2 ==
    LET t == FracSum([i \in DOMAIN summary |-> summary[i].Avg_Feature_2])
    IN Frac(t.n, t.d * Len(summary))

Above1(i) == FracLess(MeanOfMeans1, summary[i].Avg_Feature_1)
Above2(i) == FracLess(MeanOfMeans2, summary[i].Avg_Feature_2)
Below1(i) == FracLess(summary[i].Avg_Feature_1, MeanOfMeans1)
Below2(i) == FracLess(summary[i].Avg_Feature_2, MeanOfMeans2)

\* C2: one label per summary row, decided in this order against the mean of
\* the cluster means: both feature means strictly above give High, otherwise
\* both strictly below give Budget, otherwise (a tie on either feature, or
\* comparisons that disagree) Moderate.
C2_LabelRule ==
    (outcome = "interpreted") =>
        /\ Len(messages) = Len(summary)
        /\ \A i \in DOMAIN summary :
              /\ messages[i].cid = summary[i].Cluster
              /\ messages[i].msg =
                    IF Above1(i) /\ Above2(i) THEN High
                    ELSE IF Below1(i) /\ Below2(i) THEN Budget
                    ELSE Moderate

\* a labelled table with a row that is above the mean of means on feature_1,
\* exactly on it on feature_2, and above the row-weighted mean on both
C2_Witness ==
    /\ outcome = "interpreted"
    /\ \E i \in DOMAIN summary :
          /\ Above1(i)
          /\ FracEq(summary[i].Avg_Feature_2, MeanOfMeans2)
          /\ messages[i].msg = Moderate
          /\ LET n == SumSeq([j \in DOMAIN summary |-> summary[j].Count])
                 w2 == FracSum([j \in DOMAIN summary |->
                          Frac(summary[j].Avg_Feature_2.n * summary[j].Count,
                               summary[j].Avg_Feature_2.d)])
             IN FracLess(Frac(w2.n, w2.d * n), summary[i].Avg_Feature_2)

\* C3: the summary has exactly one row for each id assigned to at least one
\* dataset row and none for any other id, each Count is the number of
\* dataset rows with that id, and the Counts sum to N.
C3_SummaryCounts ==
    (outcome = "ok") =>
        /\ {summary[i].Cluster : i \in DOMAIN summary} = Range(Ids)
        /\ Len(summary) = Cardinality(Range(Ids))
        /\ \A i \in DOMAIN summary :
              summary[i].Count = Cardinality(RowsOf(summary[i].Cluster))
        /\ SumSeq([i \in DOMAIN summary |-> summary[i].Count]) = NRows(Uploaded)

\* a summary with fewer rows than K and groups of different sizes
C3_Witness ==
    /\ outcome = "ok"
    /\ Len(summary) = 2
    /\ k = 3
    /\ summary[1].Count # summary[2].Count

\* C4: a run with the dataset, feature pair, K and seed of a remembered run
\* yields the remembered per-row cluster ids, whatever was run in between.
C4_SameParametersSameIds ==
    (outcome = "ok" /\ memo # <<>> /\ SameParameters(memo[1])) =>
        Ids = memo[1].Cluster

\* a run repeating the remembered one after a run with other parameters
C4_Witness ==
    /\ outcome = "ok"
    /\ memo # <<>>
    /\ SameParameters(memo[1])
    /\ memo[1].other_runs

\* C5: with fewer than two numeric columns the program cannot proceed: a
\* press of the button ends without an uncaught exception and without a
\* clustering.
C5_TooFewNumericColumnsNoCrash ==
    (uploaded_file # <<>> /\ Len(numeric_features) < 2) =>
        /\ outcome \notin {"KeyError", "ValueError"}
        /\ outcome # "ok"

\* C6: the options of the second selectbox are exactly the numeric columns
\* other than feature_1, in the file's column order; feature_2 is one of
\* them, so feature_2 differs from feature_1 and no run clusters one column
\* twice.
C6_Feature2ExcludesFeature1 ==
    (uploaded_file # <<>>) =>
        LET options == Feature2Options(numeric_features, feature_1)
            numeric == {c \in Range(Uploaded.columns) :
                           Uploaded.dtype[c] \in {"int64", "float64"}}
            pos(c) == CHOOSE i \in DOMAIN Uploaded.columns : Uploaded.columns[i] = c
        IN /\ Range(options) = numeric \ {feature_1}
           /\ Len(options) = Cardinality(numeric \ {feature_1})
           /\ \A i, j \in DOMAIN options : i < j => pos(options[i]) < pos(options[j])
           /\ (feature_2 = None) <=> (options = <<>>)
           /\ feature_2 # None => feature_2 \in Range(options) /\ feature_2 # feature_1
           /\ outcome = "ok" => feature_1 # feature_2

\* a run on a file with three numeric columns in which feature_1 is not the
\* first of them and feature_2 is not the first option
C6_Witness ==
    /\ outcome = "ok"
    /\ Len(numeric_features) = 3
    /\ feature_1 = numeric_features[2]
    /\ feature_2 = numeric_features[3]

\* C7: a run with K greater than the row count N fails with a reported
\* error; no cluster assignment, summary or interpretation is produced, and
\* no run succeeds with K > N (K is not reduced to N).
C7_MoreClustersThanRowsFails ==
    /\ (Ran /\ uploaded_file # <<>> /\ k > NRows(Uploaded)) =>
          /\ outcome \in {"ValueError", "KeyError"}
          /\ {feature_1, feature_2} \subseteq Range(Uploaded.columns)
                => outcome = "ValueError"
          /\ df = uploaded_file
          /\ scatter = <<>>
          /\ summary = <<>>
          /\ messages = <<>>
    /\ outcome = "ok" => k <= NRows(Uploaded) /\ Len(scatter[1].centers) = k

\* a failed run over two rows or more
C7_Witness ==
    /\ outcome = "ValueError"
    /\ NRows(Uploaded) >= 2
    /\ k = NRows(Uploaded) + 1

\* mean of the uploaded values of column f over the rows with cluster id
UploadedMean(f, id) ==
    LET rows == SelectIdx(NRows(Uploaded), RowsOf(id))
    IN Frac(SumSeq([i \in DOMAIN rows |-> Uploaded.data[f][rows[i]]]), Len(rows))

\* C8: each summary row's Avg_Feature_1 and Avg_Feature_2 are the means of
\* the uploaded values of feature_1 and feature_2 over the rows assigned to
\* that cluster, whatever the columns are named.
C8_SummaryMeansOfUploadedValues ==
    (outcome = "ok") =>
        \A i \in DOMAIN summary :
            /\ FracEq(summary[i].Avg_Feature_1, UploadedMean(feature_1, summary[i].Cluster))
            /\ FracEq(summary[i].Avg_Feature_2, UploadedMean(feature_2, summary[i].Cluster))

\* C9: a run leaves the loaded dataset unchanged: the dataframe has the
\* uploaded columns with the uploaded values, and the scatter plot draws the
\* uploaded values.
C9_RunLeavesDatasetUnchanged ==
    (outcome = "ok") =>
        /\ df[1].columns = Uploaded.columns
        /\ \A c \in Range(Uploaded.columns) : df[1].data[c] = Uploaded.data[c]
        /\ scatter[1].x = Uploaded.data[feature_1]
        /\ scatter[1].y = Uploaded.data[feature_2]

ColumnMin(f) == CHOOSE v \in Range(Uploaded.data[f]) :
                    \A w \in Range(Uploaded.data[f]) : v <= w
ColumnMax(f) == CHOOSE v \in Range(Uploaded.data[f]) :
                    \A w \in Range(Uploaded.data[f]) : w <= v

Within(x, lo, hi) == ~FracLess(x, Frac(lo, 1)) /\ ~FracLess(Frac(hi, 1), x)

====
